---- MODULE Spec2Model ----
(***************************************************************************)
(* Model of src/src/interfaces.py: the universal PipelineAdapter, the      *)
(* BasePreProcessor stage contract with its deep parameter flattening,     *)
(* the ShapeChangerPreProcessor lineage accessors and BaseModel.           *)
(*                                                                         *)
(* Python strings are sequences of tokens; the token "_" is the underscore *)
(* character, so the delimiter "__" is the two-token sequence <<"_","_">>  *)
(* and f"{k}__{nk}" is concatenation around it.  Python values are records *)
(* [kind, val]; a dict keyed by strings is a function, a __dict__ whose    *)
(* iteration order matters is a sequence of [k, v] fields.                 *)
(***************************************************************************)
EXTENDS Integers, Sequences, FiniteSets, TLC

VARIABLES
    stage,      \* the BasePreProcessor composition get_params is called on
    adapter,    \* PipelineAdapter.__dict__ : attribute name -> reference
    caps,       \* methods the wrapped object exposes (what hasattr answers)
    wparams,    \* what the wrapped object's get_params(deep=True) returns
    wlog,       \* calls received by the wrapped object, in order
    fitret,     \* stage id -> stage id: the object the stage's fit returns
    attrs,      \* stage id -> the stage's private list attributes
    learned,    \* stage id -> state learned by the last fit
    slog,       \* calls received by the stages' fit/transform, in order
    op,         \* the last public operation called, with its arguments
    ret         \* its outcome: a returned value or a raised error

vars == <<stage, adapter, caps, wparams, wlog, fitret, attrs, learned, slog, op, ret>>

paramVars == <<stage>>
adapterVars == <<adapter, caps, wparams, wlog>>
stageVars == <<fitret, attrs, learned, slog>>

----------------------------------------------------------------------------
(* Bounds *)

MaxDepth == 2       \* nesting levels below the root stage
MaxFields == 2      \* public fields per stage
MaxTotal == 3       \* public fields in a whole composition
MaxCalls == 2       \* calls the wrapped object receives in one run
MaxStageCalls == 3  \* fit / transform calls the stages receive in one run

----------------------------------------------------------------------------
(* Strings *)

Delim == <<"_", "_">>

Str(tok) == <<tok>>

\* f"{k}__{nk}"
Join(k, nk) == k \o Delim \o nk

\* k.startswith("_")
startswith_underscore(k) == Len(k) > 0 /\ k[1] = "_"

----------------------------------------------------------------------------
(* Outcomes of a call *)

NoOutcome == [kind |-> "none", val |-> <<>>, exc |-> "", msg |-> ""]
Return(v) == [kind |-> "return", val |-> v, exc |-> "", msg |-> ""]
Raise(e, m) == [kind |-> "raise", val |-> <<>>, exc |-> e, msg |-> m]

----------------------------------------------------------------------------
(* Python values held in fields and returned in parameter mappings *)

Scalar(x) == [kind |-> "scalar", val |-> x]
EmptyList == [kind |-> "list", val |-> <<>>]

\* A concrete BaseModel: val is the mapping its get_params returns.
ModelObj(params) == [kind |-> "model", val |-> params]

Field(name, value) == [k |-> name, v |-> value]

\* BasePreProcessor.__init__ : the instance dictionary starts with the
\* internal attribute _feature_names_out = []; a subclass constructor then
\* assigns its own fields, in order.
FeatureNamesOut == <<"_", "feature_names_out">>

StageObj(fields) ==
    [kind |-> "stage", val |-> <<Field(FeatureNamesOut, EmptyList)>> \o fields]

\* isinstance(v, BasePreProcessor)
IsStage(v) == v.kind = "stage"

\* isinstance(v, BaseModel)
IsModel(v) == v.kind = "model"

----------------------------------------------------------------------------
(* The compositions get_params is exercised on *)

FieldNames ==
    { Str("a"), Str("b"), Str("alpha"), Str("beta"), Join(Str("a"), Str("alpha")) }

AModel == ModelObj(Str("alpha") :> Scalar("2"))

LeafValues == { Scalar("0.1"), Scalar("2"), AModel }

\* Public fields of a whole composition (the internal attribute not counted).
RECURSIVE TotalFields(_)
RECURSIVE DistinctNames(_)
TotalFieldsOfValue(v) == IF IsStage(v) THEN TotalFields(Tail(v.val)) ELSE 0
TotalFields(fields) ==
    IF fields = <<>> THEN 0
    ELSE 1 + TotalFieldsOfValue(Head(fields).v) + TotalFields(Tail(fields))

\* Sequences of at most f public fields, nested at most d levels deep with
\* at most maxf fields per nested stage, holding at most n public fields
\* in all.
RECURSIVE FieldSeqs(_, _, _, _)
FieldSeqs(d, n, f, maxf) ==
    {<<>>} \cup
    IF n = 0 \/ f = 0 THEN {}
    ELSE LET values == LeafValues \cup
                 (IF d = 0 THEN {}
                  ELSE { StageObj(fs) : fs \in FieldSeqs(d - 1, n - 1, maxf, maxf) })
             rests == [m \in 0..(n - 1) |-> FieldSeqs(d, m, f - 1, maxf)] @@ <<>>
         IN UNION {
                { <<Field(name, value)>> \o rest :
                    name \in FieldNames,
                    rest \in rests[n - 1 - TotalFieldsOfValue(value)] }
                : value \in values }

DistinctNames(fields) ==
    /\ \A i, j \in DOMAIN fields : fields[i].k = fields[j].k => i = j
    /\ \A i \in DOMAIN fields :
          IsStage(fields[i].v) => DistinctNames(Tail(fields[i].v.val))

\* The composition of the documented scenario: child A (alpha = 0.1) under
\* field a, child B (beta = 2) under field b.
ExampleStage ==
    StageObj(<< Field(Str("a"), StageObj(<<Field(Str("alpha"), Scalar("0.1"))>>)),
                Field(Str("b"), StageObj(<<Field(Str("beta"), Scalar("2"))>>)) >>)

Stages(d, n, f) ==
    { StageObj(fs) : fs \in { x \in FieldSeqs(d, n, f, f) : DistinctNames(x) } }

----------------------------------------------------------------------------
(* BasePreProcessor.get_params *)

\* {k: v for k, v in self.__dict__.items() if not k.startswith("_")},
\* as the item list (insertion order) and as the dict.
PublicItems(self) == SelectSeq(self.val, LAMBDA fld : ~startswith_underscore(fld.k))

OwnParams(self) ==
    LET items == PublicItems(self)
    IN [x \in { items[i].k : i \in DOMAIN items } |->
            items[CHOOSE i \in DOMAIN items : items[i].k = x].v]

\* for nk, nv in nested.items(): params[f"{k}__{nk}"] = nv
MergeNested(params, k, nested) ==
    [x \in DOMAIN params \cup { Join(k, nk) : nk \in DOMAIN nested } |->
        IF \E nk \in DOMAIN nested : x = Join(k, nk)
        THEN nested[CHOOSE nk \in DOMAIN nested : x = Join(k, nk)]
        ELSE params[x]]

RECURSIVE get_params(_, _)

\* for k, v in params.copy().items(): if isinstance(v, BasePreProcessor): ...
RECURSIVE FlattenLoop(_, _)
FlattenLoop(items, params) ==
    IF items = <<>> THEN params
    ELSE LET k == Head(items).k
             v == Head(items).v
         IN IF IsStage(v)
            THEN FlattenLoop(Tail(items), MergeNested(params, k, get_params(v, TRUE)))
            ELSE FlattenLoop(Tail(items), params)

get_params(self, deep) ==
    LET params == OwnParams(self)
    IN IF deep THEN FlattenLoop(PublicItems(self), params) ELSE params


----------------------------------------------------------------------------
(* Tables, labels and object references *)

Table(cols) == [kind |-> "table", val |-> cols]
None == [kind |-> "None", val |-> <<>>]
LabelVector == [kind |-> "labels", val |-> <<"y">>]
Ref(id) == [kind |-> "ref", val |-> id]
Bool(b) == [kind |-> "bool", val |-> b]

Tables == { Table(<<"x1">>), Table(<<"x1", "x2">>) }
Labels == { None, LabelVector }

\* One received call, and the opaque value the receiver answers it with.
Call(on, method, args) == [on |-> on, method |-> method, args |-> args]
ResultOf(on, method, args) ==
    [kind |-> "result", val |-> Call(on, method, args)]

----------------------------------------------------------------------------
(* PipelineAdapter *)

AdapterRef == Ref("adapter")
WrappedRef == Ref("wrapped")

Methods == {"fit", "fit_transform", "transform", "predict", "predict_proba", "get_params"}

\* __init__(self, obj): self.obj = obj
AdapterNew(obj) == [obj |-> obj]

\* hasattr(self.obj, name)
hasattr(target, name) == target = WrappedRef /\ name \in caps

\* self.obj.<method>(*args): the wrapped object records the call and answers.
Invoke(target, method, args) ==
    /\ Len(wlog) < MaxCalls
    /\ wlog' = Append(wlog, Call(target.val, method, args))

Operation(name, args) == [name |-> name, args |-> args]

\* Variant of fit that ignores a combined fit_transform on the wrapped object.
AdapterFitPlain(X, y) ==
    /\ Invoke(adapter.obj, "fit", <<X, y>>)
    /\ ret' = Return(AdapterRef)
    /\ op' = Operation("fit", <<X, y>>)
    /\ UNCHANGED <<adapter, caps, wparams>>
    /\ UNCHANGED <<paramVars, stageVars>>

\* Variant of fit that rebinds self.obj to what the learning call returned.
AdapterFitRebinds(X, y) ==
    /\ LET m == IF hasattr(adapter.obj, "fit_transform") THEN "fit_transform" ELSE "fit"
       IN /\ Invoke(adapter.obj, m, <<X, y>>)
          /\ adapter' = [adapter EXCEPT !.obj = ResultOf(adapter.obj.val, m, <<X, y>>)]
    /\ ret' = Return(AdapterRef)
    /\ op' = Operation("fit", <<X, y>>)
    /\ UNCHANGED <<caps, wparams>>
    /\ UNCHANGED <<paramVars, stageVars>>

AdapterFit(X, y) ==
    /\ IF hasattr(adapter.obj, "fit_transform")
       THEN Invoke(adapter.obj, "fit_transform", <<X, y>>)
       ELSE Invoke(adapter.obj, "fit", <<X, y>>)
    /\ ret' = Return(AdapterRef)
    /\ op' = Operation("fit", <<X, y>>)
    /\ UNCHANGED <<adapter, caps, wparams>>
    /\ UNCHANGED <<paramVars, stageVars>>

\* Variant of transform that treats a missing transform as an error.
AdapterTransformStrict(X) ==
    /\ IF hasattr(adapter.obj, "transform")
       THEN /\ Invoke(adapter.obj, "transform", <<X>>)
            /\ ret' = Return(ResultOf(adapter.obj.val, "transform", <<X>>))
       ELSE /\ ret' = Raise("AttributeError", <<"Underlying object has no", "transform", "method">>)
            /\ UNCHANGED wlog
    /\ op' = Operation("transform", <<X>>)
    /\ UNCHANGED <<adapter, caps, wparams>>
    /\ UNCHANGED <<paramVars, stageVars>>

AdapterTransform(X) ==
    /\ IF hasattr(adapter.obj, "transform")
       THEN /\ Invoke(adapter.obj, "transform", <<X>>)
            /\ ret' = Return(ResultOf(adapter.obj.val, "transform", <<X>>))
       ELSE /\ ret' = Return(X)
            /\ UNCHANGED wlog
    /\ op' = Operation("transform", <<X>>)
    /\ UNCHANGED <<adapter, caps, wparams>>
    /\ UNCHANGED <<paramVars, stageVars>>

NoMethodMessage(method) == <<"Underlying object has no", method, "method">>

AdapterPredict(X) ==
    /\ IF hasattr(adapter.obj, "predict")
       THEN /\ Invoke(adapter.obj, "predict", <<X>>)
            /\ ret' = Return(ResultOf(adapter.obj.val, "predict", <<X>>))
       ELSE /\ ret' = Raise("AttributeError", NoMethodMessage("predict"))
            /\ UNCHANGED wlog
    /\ op' = Operation("predict", <<X>>)
    /\ UNCHANGED <<adapter, caps, wparams>>
    /\ UNCHANGED <<paramVars, stageVars>>

\* Variant of predict_proba whose error names predict instead.
AdapterPredictProbaWrongName(X) ==
    /\ IF hasattr(adapter.obj, "predict_proba")
       THEN /\ Invoke(adapter.obj, "predict_proba", <<X>>)
            /\ ret' = Return(ResultOf(adapter.obj.val, "predict_proba", <<X>>))
       ELSE /\ ret' = Raise("AttributeError", NoMethodMessage("predict"))
            /\ UNCHANGED wlog
    /\ op' = Operation("predict_proba", <<X>>)
    /\ UNCHANGED <<adapter, caps, wparams>>
    /\ UNCHANGED <<paramVars, stageVars>>

AdapterPredictProba(X) ==
    /\ IF hasattr(adapter.obj, "predict_proba")
       THEN /\ Invoke(adapter.obj, "predict_proba", <<X>>)
            /\ ret' = Return(ResultOf(adapter.obj.val, "predict_proba", <<X>>))
       ELSE /\ ret' = Raise("AttributeError", NoMethodMessage("predict_proba"))
            /\ UNCHANGED wlog
    /\ op' = Operation("predict_proba", <<X>>)
    /\ UNCHANGED <<adapter, caps, wparams>>
    /\ UNCHANGED <<paramVars, stageVars>>

\* Variant of the re-keying that forgets the prefix.
RekeyUnprefixed(prefix, params) == params

\* {f"obj__{k}": v for k, v in self.obj.get_params(deep=True).items()}
Rekey(prefix, params) ==
    [x \in { Join(prefix, k) : k \in DOMAIN params } |->
        params[CHOOSE k \in DOMAIN params : x = Join(prefix, k)]]

AdapterGetParams(deep) ==
    /\ IF hasattr(adapter.obj, "get_params")
       THEN IF deep
            THEN /\ Invoke(adapter.obj, "get_params", <<Bool(TRUE)>>)
                 /\ ret' = Return(Rekey(Str("obj"), wparams))
            ELSE /\ ret' = Return(Str("obj") :> adapter.obj)
                 /\ UNCHANGED wlog
       ELSE /\ ret' = Return(Str("obj") :> adapter.obj)
            /\ UNCHANGED wlog
    /\ op' = Operation("get_params", <<Bool(deep)>>)
    /\ UNCHANGED <<adapter, caps, wparams>>
    /\ UNCHANGED <<paramVars, stageVars>>

\* Mappings a wrapped object's get_params(deep=True) may answer with.
WrappedParamMaps ==
    { <<>>,
      Str("alpha") :> Scalar("0.1"),
      (Str("alpha") :> Scalar("0.1")) @@ (Join(Str("a"), Str("alpha")) :> Scalar("2")) }


----------------------------------------------------------------------------
(* BasePreProcessor / ShapeChangerPreProcessor instances *)

StageIds == {"s1", "s2"}

\* ShapeChangerPreProcessor.__init__ (after BasePreProcessor.__init__)
ShapeChangerNew ==
    [ _feature_names_out |-> <<>>,
      _input_features |-> <<>>,
      _new_features |-> <<>>,
      _removed_features |-> <<>> ]

NotLearned == [kind |-> "None", val |-> <<>>]
List(xs) == [kind |-> "list", val |-> xs]

\* The mutable state the stages' methods act on.
Heap == [attrs |-> attrs, learned |-> learned, slog |-> slog]

\* A concrete stage's fit: records the call, re-learns from (X, y), discarding
\* what was learned before, and returns the object its class returns from fit.
ConcreteFit(h, self, X, y) ==
    [ h |-> [h EXCEPT !.slog = Append(@, Call(self, "fit", <<X, y>>)),
                      !.learned[self] = [kind |-> "learned", val |-> <<X, y>>]],
      ret |-> Ref(fitret[self]) ]

\* A concrete stage's transform: records the call, records the lineage of the
\* table it saw, and returns a table determined by the learned state and X.
ConcreteTransform(h, self, X) ==
    [ h |-> [h EXCEPT !.slog = Append(@, Call(self, "transform", <<X>>)),
                      !.attrs[self]._input_features = X.val,
                      !.attrs[self]._feature_names_out = X.val],
      ret |-> [kind |-> "table", val |-> X.val, by |-> self, from |-> h.learned[self]] ]

\* Variant of fit_transform that transforms on self, whatever fit returned.
fit_transform_on_self(h, self, X, y) ==
    LET fitted == ConcreteFit(h, self, X, y)
    IN ConcreteTransform(fitted.h, self, X)

\* return self.fit(X, y).transform(X)
fit_transform(h, self, X, y) ==
    LET fitted == ConcreteFit(h, self, X, y)
    IN ConcreteTransform(fitted.h, fitted.ret.val, X)

SetHeap(h) ==
    /\ attrs' = h.attrs
    /\ learned' = h.learned
    /\ slog' = h.slog

StageFit(self, X, y) ==
    /\ Len(slog) + 1 <= MaxStageCalls
    /\ LET r == ConcreteFit(Heap, self, X, y)
       IN SetHeap(r.h) /\ ret' = Return(r.ret)
    /\ op' = Operation("fit", <<Ref(self), X, y>>)
    /\ UNCHANGED fitret
    /\ UNCHANGED <<paramVars, adapterVars>>

StageTransform(self, X) ==
    /\ Len(slog) + 1 <= MaxStageCalls
    /\ LET r == ConcreteTransform(Heap, self, X)
       IN SetHeap(r.h) /\ ret' = Return(r.ret)
    /\ op' = Operation("transform", <<Ref(self), X>>)
    /\ UNCHANGED fitret
    /\ UNCHANGED <<paramVars, adapterVars>>

StageFitTransform(self, X, y) ==
    /\ Len(slog) + 2 <= MaxStageCalls
    /\ LET r == fit_transform(Heap, self, X, y)
       IN SetHeap(r.h) /\ ret' = Return(r.ret)
    /\ op' = Operation("fit_transform", <<Ref(self), X, y>>)
    /\ UNCHANGED fitret
    /\ UNCHANGED <<paramVars, adapterVars>>

\* Accessors: each returns the private list.
get_feature_names_out(self) == Return(List(attrs[self]._feature_names_out))
get_original_features(self) == Return(List(attrs[self]._input_features))
get_new_features(self) == Return(List(attrs[self]._new_features))
get_removed_features(self) == Return(List(attrs[self]._removed_features))

Accessors ==
    {"get_feature_names_out", "get_original_features", "get_new_features",
     "get_removed_features"}

LineageAccessors == Accessors \ {"get_feature_names_out"}

StageAccessor(self, name) ==
    /\ ret' = CASE name = "get_feature_names_out" -> get_feature_names_out(self)
                [] name = "get_original_features" -> get_original_features(self)
                [] name = "get_new_features" -> get_new_features(self)
                [] name = "get_removed_features" -> get_removed_features(self)
    /\ op' = Operation(name, <<Ref(self)>>)
    /\ UNCHANGED <<fitret, attrs, learned, slog>>
    /\ UNCHANGED <<paramVars, adapterVars>>


----------------------------------------------------------------------------
(* BasePreProcessor.get_params as an operation on a composition *)

BaseGetParams(deep) ==
    /\ ret' = Return(get_params(stage, deep))
    /\ op' = Operation("get_params", <<Bool(deep)>>)
    /\ UNCHANGED stage
    /\ UNCHANGED <<adapterVars, stageVars>>

----------------------------------------------------------------------------
(* Specifications *)

IdleParams == stage = StageObj(<<>>)

IdleAdapter ==
    /\ adapter = AdapterNew(WrappedRef)
    /\ caps = {"fit"}
    /\ wparams = <<>>
    /\ wlog = <<>>

IdleStages ==
    /\ fitret = [s \in StageIds |-> s]
    /\ attrs = [s \in StageIds |-> ShapeChangerNew]
    /\ learned = [s \in StageIds |-> NotLearned]
    /\ slog = <<>>

NoCallYet == op = Operation("none", <<>>) /\ ret = NoOutcome

\* A composition is assembled, then introspected.
ParamsInit ==
    /\ stage \in Stages(MaxDepth, MaxTotal, MaxFields) \cup {ExampleStage}
    /\ IdleAdapter /\ IdleStages /\ NoCallYet

ParamsNext ==
    \E deep \in BOOLEAN : BaseGetParams(deep)

ParamsSpec == ParamsInit /\ [][ParamsNext]_vars

\* An adapter is constructed around an object that can learn (the constructor
\* documents "any object with fit/transform/predict interface"); which of
\* the other methods the object has is free.
AdapterInit ==
    /\ adapter = AdapterNew(WrappedRef)
    /\ caps \in { c \in SUBSET Methods : "fit" \in c \/ "fit_transform" \in c }
    /\ wparams \in WrappedParamMaps
    /\ wlog = <<>>
    /\ IdleParams /\ IdleStages /\ NoCallYet

AdapterNext ==
    \/ \E X \in Tables, y \in Labels : AdapterFit(X, y)
    \/ \E X \in Tables : AdapterTransform(X)
    \/ \E X \in Tables : AdapterPredict(X)
    \/ \E X \in Tables : AdapterPredictProba(X)
    \/ \E deep \in BOOLEAN : AdapterGetParams(deep)

AdapterSpec == AdapterInit /\ [][AdapterNext]_vars

\* Two freshly constructed shape-changing stages; the class of each decides
\* which object its fit returns.
StageInit ==
    /\ fitret \in [StageIds -> StageIds]
    /\ attrs = [s \in StageIds |-> ShapeChangerNew]
    /\ learned = [s \in StageIds |-> NotLearned]
    /\ slog = <<>>
    /\ IdleParams /\ IdleAdapter /\ NoCallYet

StageNext ==
    \/ \E s \in StageIds, X \in Tables, y \in Labels : StageFit(s, X, y)
    \/ \E s \in StageIds, X \in Tables : StageTransform(s, X)
    \/ \E s \in StageIds, X \in Tables, y \in Labels : StageFitTransform(s, X, y)
    \/ \E s \in StageIds, name \in Accessors : StageAccessor(s, name)

StageSpec == StageInit /\ [][StageNext]_vars


----------------------------------------------------------------------------
(* Vocabulary of the claims about parameter introspection *)

\* Number of "__"-separated segments of a path: len(key.split("__")).
RECURSIVE SegmentCount(_)
SegmentCount(key) ==
    IF Len(key) >= 2 /\ key[1] = "_" /\ key[2] = "_"
    THEN 1 + SegmentCount(SubSeq(key, 3, Len(key)))
    ELSE IF key = <<>> THEN 1 ELSE SegmentCount(Tail(key))

\* Every public field reachable through nested stages, with the chain of
\* field names that leads to it and the final path that chain flattens to.
RECURSIVE Sources(_)
Sources(self) ==
    LET items == PublicItems(self)
    IN UNION {
        LET k == items[i].k
            v == items[i].v
        IN {[chain |-> <<k>>, key |-> k, v |-> v]} \cup
           (IF IsStage(v)
            THEN { [chain |-> <<k>> \o s.chain, key |-> Join(k, s.key), v |-> s.v] :
                    s \in Sources(v) }
            ELSE {})
        : i \in DOMAIN items }

\* Two different sources flatten to the same final path.
HasCollision(self) ==
    \E s, t \in Sources(self) : s.chain # t.chain /\ s.key = t.key

DeepGetParamsCalled == op = Operation("get_params", <<Bool(TRUE)>>)

\* What a nested contract answers to get_params(True).
NestedParams(v) == IF IsStage(v) THEN get_params(v, TRUE) ELSE v.val

ExampleParams ==
    (Join(Str("a"), Str("alpha")) :> Scalar("0.1")) @@
    (Join(Str("b"), Str("beta")) :> Scalar("2"))

----------------------------------------------------------------------------
(* Claims checked under ParamsSpec *)

\* C1: get_params(deep=True) on a composition in which two different sources
\* flatten to the same path aborts with ParameterNamespaceCollisionError and
\* returns no mapping.
C1_CollisionFailsFast ==
    (DeepGetParamsCalled /\ HasCollision(stage)) =>
        (ret.kind = "raise" /\ ret.exc = "ParameterNamespaceCollisionError")

\* C2: get_params(deep=True) returns exactly one entry per leaf
\* hyperparameter and no entry for a nested stage itself, each key having as
\* many "__"-separated segments as the leaf's nesting depth; on the example
\* composition the result is exactly {"a__alpha": 0.1, "b__beta": 2}.
C2_OneEntryPerLeaf ==
    DeepGetParamsCalled =>
        LET leaves == { s \in Sources(stage) : ~IsStage(s.v) }
        IN /\ ret.kind = "return"
           /\ DOMAIN ret.val = { s.key : s \in leaves }
           /\ Cardinality(DOMAIN ret.val) = Cardinality(leaves)
           /\ \A s \in leaves :
                 ret.val[s.key] = s.v /\ SegmentCount(s.key) = Len(s.chain)
           /\ stage = ExampleStage => ret.val = ExampleParams

\* C9: get_params(deep=True) holds "<field>__<p>" -> v for every entry
\* p -> v of the get_params(True) of every public field that is a stage or
\* a model.
C9_NestedContractsFlattened ==
    DeepGetParamsCalled =>
        /\ ret.kind = "return"
        /\ \A fld \in { f \in { stage.val[i] : i \in DOMAIN stage.val } :
                          ~startswith_underscore(f.k) /\ (IsStage(f.v) \/ IsModel(f.v)) } :
              \A p \in DOMAIN NestedParams(fld.v) :
                 /\ Join(fld.k, p) \in DOMAIN ret.val
                 /\ ret.val[Join(fld.k, p)] = NestedParams(fld.v)[p]

----------------------------------------------------------------------------
(* Claims checked under StageSpec *)

\* The stage a call was made on has received no fit and no transform so far.
NeverFitted(self) == \A i \in DOMAIN slog : slog[i].on # self

\* C3: on a freshly constructed shape-changing stage on which no fit or
\* transform has completed, get_original_features, get_new_features and
\* get_removed_features each fail with a NotFittedError.
C3_FreshAccessorsRaise ==
    (op.name \in LineageAccessors /\ NeverFitted(op.args[1].val)) =>
        (ret.kind = "raise" /\ ret.exc = "NotFittedError")

\* C4: a stage's inherited fit_transform(X, y) performs exactly one fit(X, y)
\* on the stage, then exactly one transform(X) on the object fit returned,
\* and returns that transform's result; the result and the final state are
\* those of fit(X, y).transform(X).
C4_FitTransformIsFitThenTransform ==
    [][ op'.name = "fit_transform" =>
          LET self == op'.args[1].val
              X == op'.args[2]
              y == op'.args[3]
              fitted == ConcreteFit(Heap, self, X, y)
              done == ConcreteTransform(fitted.h, fitted.ret.val, X)
          IN /\ slog' = slog \o << Call(self, "fit", <<X, y>>),
                                   Call(fitret[self], "transform", <<X>>) >>
             /\ ret' = Return(done.ret)
             /\ attrs' = done.h.attrs
             /\ learned' = done.h.learned ]_vars

C4_Witness ==
    /\ op.name = "fit_transform"
    /\ fitret[op.args[1].val] # op.args[1].val
    /\ ret.kind = "return"
    /\ ret.val.by = fitret[op.args[1].val]
    /\ Len(slog) > 2

----------------------------------------------------------------------------
(* Claims checked under AdapterSpec *)

\* C5: PipelineAdapter.transform(X) returns the wrapped object's
\* transform(X) result when the wrapped object exposes transform, and
\* otherwise returns the input X itself without raising and without calling
\* anything on the wrapped object, whether or not fit was called before.
C5_TransformDelegatesOrPassesThrough ==
    [][ op'.name = "transform" =>
          LET X == op'.args[1]
          IN IF "transform" \in caps
             THEN /\ wlog' = Append(wlog, Call("wrapped", "transform", <<X>>))
                  /\ ret' = Return(ResultOf("wrapped", "transform", <<X>>))
             ELSE /\ ret' = Return(X)
                  /\ wlog' = wlog ]_vars

C5_Witness ==
    /\ op.name = "transform"
    /\ "transform" \notin caps
    /\ ret = Return(op.args[1])
    /\ \E i \in DOMAIN wlog : wlog[i].method \in {"fit", "fit_transform"}

\* C6: PipelineAdapter.predict(X) and predict_proba(X) delegate to the
\* wrapped object's method of the same name when it exists; otherwise the
\* call raises an error naming the missing capability, returns no value and
\* invokes nothing on the wrapped object.
C6_PredictDelegatesOrRaises ==
    [][ op'.name \in {"predict", "predict_proba"} =>
          LET X == op'.args[1]
              m == op'.name
          IN IF m \in caps
             THEN /\ wlog' = Append(wlog, Call("wrapped", m, <<X>>))
                  /\ ret' = Return(ResultOf("wrapped", m, <<X>>))
             ELSE /\ ret'.kind = "raise"
                  /\ ret'.exc = "AttributeError"
                  /\ ret'.val = <<>>
                  /\ \E i \in DOMAIN ret'.msg : ret'.msg[i] = m
                  /\ wlog' = wlog ]_vars

C6_Witness ==
    /\ op.name = "predict_proba"
    /\ "predict_proba" \notin caps
    /\ "predict" \in caps
    /\ ret.kind = "raise"
    /\ wlog # <<>>

C8_GetParamsRekeysOrIsOpaque ==
    op.name = "get_params" =>
        /\ ret.kind = "return"
        /\ (op.args[1].val /\ "get_params" \in caps) =>
              /\ DOMAIN ret.val = { Str("obj") \o Delim \o k : k \in DOMAIN wparams }
              /\ Cardinality(DOMAIN ret.val) = Cardinality(DOMAIN wparams)
              /\ \A k \in DOMAIN wparams : ret.val[Str("obj") \o Delim \o k] = wparams[k]
        /\ ~op.args[1].val =>
              /\ DOMAIN ret.val = {Str("obj")}
              /\ ret.val[Str("obj")] = WrappedRef

C8_Witness ==
    /\ op = Operation("get_params", <<Bool(TRUE)>>)
    /\ "get_params" \in caps
    /\ Cardinality(DOMAIN wparams) = 2
    /\ ret.kind = "return"
    /\ Cardinality(DOMAIN ret.val) = 2

\* C10: after any sequence of adapter operations, successful or failing, the
\* adapter's only attribute is obj and it still refers to the object given
\* at construction.
C10_AdapterHoldsOnlyItsReference ==
    /\ DOMAIN adapter = {"obj"}
    /\ adapter.obj = WrappedRef

C10_Witness ==
    /\ C10_AdapterHoldsOnlyItsReference
    /\ ret.kind = "raise"
    /\ \E i \in DOMAIN wlog : wlog[i].method \in {"fit", "fit_transform"}
    /\ \E i \in DOMAIN wlog : wlog[i].method = "transform"


====
